---------------------------- MODULE Spec2Model ----------------------------
(***************************************************************************)
(* AceBaseClientAuth (src/src/auth.js): the client-side session adapter.   *)
(*                                                                         *)
(* The adapter holds `user` and `accessToken`, forwards every operation to *)
(* client.api and reports sign-ins and sign-outs through eventCallback.    *)
(* A method with a .then callback runs in two steps on the JavaScript event *)
(* loop: the synchronous part up to the API call (the action named after   *)
(* the method) and the callback once the API promise resolves (the action  *)
(* named <method>Then).  A rejected API promise skips the callback and     *)
(* rejects the method's promise with the same error (action ApiFails).     *)
(* Any number of calls may be pending at once; they settle in any order.   *)
(* forgotPassword and resetPassword return the API's promise and have no   *)
(* second step.                                                            *)
(***************************************************************************)
EXTENDS Naturals, Sequences, FiniteSets, TLC

VARIABLES
    user,         \* this.user: NullUser or an AceBaseUser object
    accessToken,  \* this.accessToken: NullToken or a token
    inflight,     \* the pending API promises, with what their callbacks captured
    nextId,       \* the number of the next call that reaches the API
    last          \* what the step just taken did (calls, events, settled promise)

vars == <<user, accessToken, inflight, nextId, last>>

---------------------------------------------------------------------------
(* Bounds of the model.                                                    *)

\* Calls with a callback that reach the Remote Auth API over one run.
MaxOps == 3

\* API promises pending at the same time.
MaxInflight == 2

---------------------------------------------------------------------------
(* Values.                                                                 *)

\* JavaScript's undefined (an argument or a field that was not given).
Undefined == "undefined"

\* this.accessToken = null
NullToken == "null"

\* this.user = null.  It has no uid: reading NullUser.uid is an error, as
\* reading null.uid is in the code.
NullUser == [oid |-> 0]

\* JavaScript truthiness of an optional string: undefined and "" are falsy.
Truthy(x) == x # Undefined /\ x # ""

\* Profiles the Remote Auth API returns (details.user): the admin account
\* and an ordinary one.
Profiles ==
    { [uid |-> "admin", username |-> "admin", email |-> Undefined, settings |-> "s0"],
      [uid |-> "u1", username |-> "a", email |-> "a@x", settings |-> "s0"] }

\* Access tokens the Remote Auth API issues.
Tokens == {"t1", "t2"}

\* Errors the Remote Auth API rejects with; opaque to the adapter.
ApiErrors == { [code |-> "api_error_1"], [code |-> "api_error_2"] }

\* { accessToken, user }: what the API's sign-in methods and a signing-in
\* sign-up resolve with.
SignInResponses == [accessToken : Tokens, user : Profiles]

\* { user }: what the API's sign-up resolves with when it does not sign into
\* the new account (accessToken is optional in that case).
SignUpOnlyResponses == [user : Profiles]

\* { accessToken }: what the API's changePassword resolves with.
ChangePasswordResponses == [accessToken : Tokens]

\* { user }: what the API's updateUserDetails resolves with; user holds the
\* fields the server sends back, which may be none, some or several.
UpdateResponses ==
    { [user |-> [k \in {} |-> Undefined]],
      [user |-> [username |-> "n"]],
      [user |-> [settings |-> "s2"]],
      [user |-> [username |-> "n", email |-> "n@x"]] }

\* Arguments of signUp (details.username, details.email, details.password):
\* given, empty or missing.
SignUpDetails ==
    { [username |-> "a", email |-> Undefined, password |-> "pw"],
      [username |-> Undefined, email |-> "a@x", password |-> "pw"],
      [username |-> Undefined, email |-> Undefined, password |-> "pw"],
      [username |-> "", email |-> "", password |-> "pw"],
      [username |-> "a", email |-> "a@x", password |-> Undefined],
      [username |-> "a", email |-> Undefined, password |-> ""] }

\* Arguments of deleteAccount: no uid, an empty one, or an account's uid.
DeleteUids == {Undefined, "", "admin", "u1", "u2"}

\* The value a promise of nothing resolves with.
Void == [void |-> TRUE]

---------------------------------------------------------------------------
(* Helpers.                                                                *)

\* new AceBaseUser(profile): a new object (identity oid) with the profile's
\* fields.
AceBaseUser(profile, oid) ==
    [oid |-> oid, uid |-> profile.uid, username |-> profile.username,
     email |-> profile.email, settings |-> profile.settings]

\* Promise.reject({ code, message }): the fixed local errors.
LocalError(code) == [code |-> code]

\* A promise's fate after a step.
Pending == [status |-> "pending"]
Resolved(value) == [status |-> "resolved", value |-> value]
Rejected(error) == [status |-> "rejected", error |-> error]

\* The payloads handed to eventCallback.
SigninEvent(source, u, t) ==
    [name |-> "signin", source |-> source, user |-> u, accessToken |-> t]

SignoutEvent(source, u) ==
    [name |-> "signout", source |-> source, user |-> u]

\* What an invocation is: the method, the number of its API call (0 when it
\* makes none), and for the statement of properties the user object the
\* session held when it was invoked (held, an object identity) and the events
\* its synchronous part emitted (emitted).
Call(op, id, emitted) ==
    [op |-> op, id |-> id, emitted |-> emitted, held |-> user.oid]

\* What a listener that only receives eventCallback's calls knows of the
\* session: the name of the event and the identity of the user it carried.
Heard(event) == [name |-> event.name, oid |-> event.user.oid]

\* The listener before any event.
HeardNothing == [name |-> "none", oid |-> 0]

\* The record of one step: the action, the invocation it belongs to, what it
\* was given (the arguments, the API's response or the API's error), the API
\* calls made and the events emitted during the step, the fate of the
\* method's promise after it, and the last event eventCallback has been
\* handed up to and including this step (heard).
Step(act, o, input, calls, events, promise) ==
    [act |-> act, o |-> o, input |-> input, calls |-> calls,
     events |-> events, promise |-> promise,
     heard |-> IF events = <<>> THEN last.heard
               ELSE Heard(events[Len(events)])]

\* The adapter may start another API call.
CanCall == nextId <= MaxOps /\ Cardinality(inflight) < MaxInflight

\* if (!this.user)
NotSignedIn == user = NullUser

---------------------------------------------------------------------------
(* Construction.                                                           *)

Init ==
    /\ user = NullUser
    /\ accessToken = NullToken
    /\ inflight = {}
    /\ nextId = 1
    /\ last = [act |-> "constructor", heard |-> HeardNothing]


---------------------------------------------------------------------------
(* signIn, signInWithEmail, signInWithToken.                               *)

\* The source tags of the three sign-in methods' events.
signInSource == "signin"

signInWithEmailSource == "email_signin"

signInWithTokenSource == "token_signin"

\* SignInCall that also drops the token when it clears the user.
SignInCallClearsToken(op, args) ==
    /\ CanCall
    /\ user' = NullUser
    /\ accessToken' = NullToken
    /\ inflight' = inflight \cup {Call(op, nextId, <<>>)}
    /\ nextId' = nextId + 1
    /\ last' = Step(op, Call(op, nextId, <<>>), args,
                    <<[api |-> op, args |-> args]>>, <<>>, Pending)

\* The synchronous part of a sign-in method: this.user = null, then the API
\* call.  The token is not touched.
SignInCall(op, args) ==
    /\ CanCall
    /\ user' = NullUser
    /\ inflight' = inflight \cup {Call(op, nextId, <<>>)}
    /\ nextId' = nextId + 1
    /\ last' = Step(op, Call(op, nextId, <<>>), args,
                    <<[api |-> op, args |-> args]>>, <<>>, Pending)
    /\ UNCHANGED accessToken

\* SignInThen without this.accessToken = details.accessToken: the event and
\* the result carry the token held before.
SignInThenStaleToken(o, source, details) ==
    LET newUser == AceBaseUser(details.user, o.id) IN
    /\ user' = newUser
    /\ inflight' = inflight \ {o}
    /\ last' = Step(o.op \o "Then", o, details, <<>>,
                    <<SigninEvent(source, newUser, accessToken)>>,
                    Resolved([user |-> newUser, accessToken |-> accessToken]))
    /\ UNCHANGED <<accessToken, nextId>>

\* SignInThen that lets the call invoked last win: a response arriving for
\* an older call than the one the session is from is resolved but not stored.
SignInThenNewestWins(o, source, details) ==
    LET newUser == AceBaseUser(details.user, o.id)
        stale == user # NullUser /\ user.oid > o.id
    IN
    /\ accessToken' = IF stale THEN accessToken ELSE details.accessToken
    /\ user' = IF stale THEN user ELSE newUser
    /\ inflight' = inflight \ {o}
    /\ last' = Step(o.op \o "Then", o, details, <<>>,
                    <<SigninEvent(source, newUser, details.accessToken)>>,
                    Resolved([user |-> newUser, accessToken |-> details.accessToken]))
    /\ UNCHANGED nextId

\* The .then callback of a sign-in method: store the token, build the user,
\* emit signin, resolve with { user, accessToken }.
SignInThen(o, source, details) ==
    LET newUser == AceBaseUser(details.user, o.id) IN
    /\ accessToken' = details.accessToken
    /\ user' = newUser
    /\ inflight' = inflight \ {o}
    /\ last' = Step(o.op \o "Then", o, details, <<>>,
                    <<SigninEvent(source, newUser, details.accessToken)>>,
                    Resolved([user |-> newUser, accessToken |-> details.accessToken]))
    /\ UNCHANGED nextId

signIn(username, password) ==
    SignInCall("signIn", <<username, password>>)

signInThen(o, details) ==
    /\ o.op = "signIn"
    /\ SignInThen(o, signInSource, details)

signInWithEmail(email, password) ==
    SignInCall("signInWithEmail", <<email, password>>)

signInWithEmailThen(o, details) ==
    /\ o.op = "signInWithEmail"
    /\ SignInThen(o, signInWithEmailSource, details)

signInWithToken(token) ==
    SignInCall("signInWithToken", <<token>>)

signInWithTokenThen(o, details) ==
    /\ o.op = "signInWithToken"
    /\ SignInThen(o, signInWithTokenSource, details)

---------------------------------------------------------------------------
(* signOut.                                                                *)

\* A method's local rejection: Promise.reject(...) before any API call.
\* Nothing of the adapter changes.
RejectLocally(op, args, code) ==
    /\ last' = Step(op, Call(op, 0, <<>>), args, <<>>, <<>>,
                    Rejected(LocalError(code)))
    /\ UNCHANGED <<user, accessToken, inflight, nextId>>

\* A method's API call when its synchronous part changes nothing else.
CallApi(o, args, call) ==
    /\ CanCall
    /\ inflight' = inflight \cup {o}
    /\ nextId' = nextId + 1
    /\ last' = Step(o.op, o, args, <<call>>, <<>>, Pending)
    /\ UNCHANGED <<user, accessToken>>

\* signOut without its if (!this.user) guard.
signOutUnguarded(everywhere) ==
    CallApi(Call("signOut", nextId, <<>>), <<everywhere>>,
            [api |-> "signOut", args |-> <<everywhere>>])

signOut(everywhere) ==
    IF NotSignedIn
    THEN RejectLocally("signOut", <<everywhere>>, "not_signed_in")
    ELSE CallApi(Call("signOut", nextId, <<>>), <<everywhere>>,
                 [api |-> "signOut", args |-> <<everywhere>>])

\* signOutThen without this.user = null.
signOutThenKeepsUser(o) ==
    /\ o.op = "signOut"
    /\ accessToken' = NullToken
    /\ inflight' = inflight \ {o}
    /\ last' = Step("signOutThen", o, Void, <<>>,
                    <<SignoutEvent("signout", user)>>, Resolved(Void))
    /\ UNCHANGED <<user, nextId>>

\* signOutThen without let user = this.user: the event is built after
\* this.user = null and carries no user.
signOutThenEventAfterClear(o) ==
    /\ o.op = "signOut"
    /\ accessToken' = NullToken
    /\ user' = NullUser
    /\ inflight' = inflight \ {o}
    /\ last' = Step("signOutThen", o, Void, <<>>,
                    <<SignoutEvent("signout", NullUser)>>, Resolved(Void))
    /\ UNCHANGED nextId

\* accessToken = null; let user = this.user; this.user = null; emit signout.
signOutThen(o) ==
    /\ o.op = "signOut"
    /\ accessToken' = NullToken
    /\ user' = NullUser
    /\ inflight' = inflight \ {o}
    /\ last' = Step("signOutThen", o, Void, <<>>,
                    <<SignoutEvent("signout", user)>>, Resolved(Void))
    /\ UNCHANGED nextId

---------------------------------------------------------------------------
(* changePassword.                                                         *)

changePassword(oldPassword, newPassword) ==
    IF NotSignedIn
    THEN RejectLocally("changePassword", <<oldPassword, newPassword>>,
                       "not_signed_in")
    ELSE CallApi(Call("changePassword", nextId, <<>>),
                 <<oldPassword, newPassword>>,
                 [api |-> "changePassword",
                  args |-> <<user.uid, oldPassword, newPassword>>])

\* changePasswordThen without this.accessToken = result.accessToken.
changePasswordThenStaleToken(o, result) ==
    /\ o.op = "changePassword"
    /\ inflight' = inflight \ {o}
    /\ last' = Step("changePasswordThen", o, result, <<>>,
                    <<SigninEvent("password_change", user, accessToken)>>,
                    Resolved([accessToken |-> result.accessToken]))
    /\ UNCHANGED <<user, accessToken, nextId>>

\* Store the new token and emit signin with this.user as it is now.
changePasswordThen(o, result) ==
    /\ o.op = "changePassword"
    /\ accessToken' = result.accessToken
    /\ inflight' = inflight \ {o}
    /\ last' = Step("changePasswordThen", o, result, <<>>,
                    <<SigninEvent("password_change", user, result.accessToken)>>,
                    Resolved([accessToken |-> result.accessToken]))
    /\ UNCHANGED <<user, nextId>>

---------------------------------------------------------------------------
(* forgotPassword, resetPassword: return this.client.api.<method>(...).    *)
(* The method's promise is the API's own promise: the adapter attaches no  *)
(* callback, so nothing of the adapter runs when it settles.               *)

\* The fate of a promise that is the API's own.
ApiPromise == [status |-> "api"]

\* The API call of a method that returns the API's promise as it is.
PassThrough(op, args) ==
    /\ last' = Step(op, Call(op, 0, <<>>), args,
                    <<[api |-> op, args |-> args]>>, <<>>, ApiPromise)
    /\ UNCHANGED <<user, accessToken, inflight, nextId>>

forgotPassword(email) ==
    PassThrough("forgotPassword", <<email>>)

resetPassword(resetCode, newPassword) ==
    PassThrough("resetPassword", <<resetCode, newPassword>>)

---------------------------------------------------------------------------
(* _updateUserDetails and changeUsername, changeEmail, updateUserSettings. *)

\* The object literals the three public methods build: { username },
\* { email } and { settings }.
DetailObjects ==
    { [username |-> "n"], [email |-> "n@x"], [settings |-> "s2"] }

\* typeof details === 'object'
IsObject(details) == details \in DetailObjects

\* MergeDetails that keeps only what the server returned: the fields it did
\* not return are lost.
ReplaceDetails(u, returned) ==
    [k \in DOMAIN u \cup DOMAIN returned |->
        IF k \in DOMAIN returned THEN returned[k]
        ELSE IF k = "oid" THEN u[k] ELSE Undefined]

\* Object.keys(result.user).forEach(key => this.user[key] = result.user[key])
\* on a user object u: the returned fields overwrite, the others stay, and the
\* object is the same one.
MergeDetails(u, returned) ==
    [k \in DOMAIN u \cup DOMAIN returned |->
        IF k \in DOMAIN returned THEN returned[k] ELSE u[k]]

_updateUserDetails(op, details) ==
    IF NotSignedIn
    THEN RejectLocally(op, <<details>>, "not_signed_in")
    ELSE IF ~IsObject(details)
    THEN RejectLocally(op, <<details>>, "invalid_details")
    ELSE CallApi(Call(op, nextId, <<>>), <<details>>,
                 [api |-> "updateUserDetails", args |-> <<details>>])

\* The .then callback.  With no user held any more, the first assignment
\* this.user[key] = ... throws a TypeError, which rejects the method's
\* promise; with no field returned nothing is assigned.
_updateUserDetailsThen(o, result) ==
    /\ o.op \in {"changeUsername", "changeEmail", "updateUserSettings"}
    /\ inflight' = inflight \ {o}
    /\ IF DOMAIN result.user # {} /\ user = NullUser
       THEN /\ user' = user
            /\ last' = Step("_updateUserDetailsThen", o, result, <<>>, <<>>,
                            Rejected([code |-> "TypeError"]))
       ELSE /\ user' = IF DOMAIN result.user = {} THEN user
                       ELSE MergeDetails(user, result.user)
            /\ last' = Step("_updateUserDetailsThen", o, result, <<>>, <<>>,
                            Resolved([user |-> user']))
    /\ UNCHANGED <<accessToken, nextId>>

changeUsername(newUsername) ==
    _updateUserDetails("changeUsername", [username |-> newUsername])

changeEmail(newEmail) ==
    _updateUserDetails("changeEmail", [email |-> newEmail])

updateUserSettings(settings) ==
    _updateUserDetails("updateUserSettings", [settings |-> settings])

---------------------------------------------------------------------------
(* signUp.                                                                 *)

\* !details.username && !details.email
NoUsernameOrEmail(details) ==
    ~Truthy(details.username) /\ ~Truthy(details.email)

\* !details.password
NoPassword(details) == ~Truthy(details.password)

\* IsAdmin that recognises no one: the uid is compared with a name no profile
\* has.
IsAdminNever == user # NullUser /\ user.uid = "Admin"

\* const isAdmin = this.user && this.user.uid === 'admin'
IsAdmin == user # NullUser /\ user.uid = "admin"

\* if (this.user && !isAdmin): the local sign-out before the API call.
SignsOutFirst == user # NullUser /\ ~IsAdmin

\* signUp that clears the user before the API call without telling the
\* listener.
signUpSilentSignOut(details) ==
    IF NoUsernameOrEmail(details)
    THEN RejectLocally("signUp", <<details>>, "invalid_details")
    ELSE IF NoPassword(details)
    THEN RejectLocally("signUp", <<details>>, "invalid_details")
    ELSE LET o == [op |-> "signUp", id |-> nextId, emitted |-> <<>>,
                   held |-> user.oid, isAdmin |-> IsAdmin]
         IN /\ CanCall
            /\ user' = IF SignsOutFirst THEN NullUser ELSE user
            /\ inflight' = inflight \cup {o}
            /\ nextId' = nextId + 1
            /\ last' = Step("signUp", o, <<details>>,
                            <<[api |-> "signUp", args |-> <<details, ~IsAdmin>>]>>,
                            <<>>, Pending)
            /\ UNCHANGED accessToken

\* signUp that signs out of the current account before it looks at details.
signUpValidatesLate(details) ==
    LET events == IF SignsOutFirst
                  THEN <<SignoutEvent("signup", user)>> ELSE <<>>
        o == [op |-> "signUp", id |-> nextId, emitted |-> events,
              held |-> user.oid, isAdmin |-> IsAdmin]
    IN  IF NoUsernameOrEmail(details) \/ NoPassword(details)
        THEN /\ user' = IF SignsOutFirst THEN NullUser ELSE user
             /\ last' = Step("signUp", Call("signUp", 0, events), <<details>>,
                             <<>>, events,
                             Rejected(LocalError("invalid_details")))
             /\ UNCHANGED <<accessToken, inflight, nextId>>
        ELSE /\ CanCall
             /\ user' = IF SignsOutFirst THEN NullUser ELSE user
             /\ inflight' = inflight \cup {o}
             /\ nextId' = nextId + 1
             /\ last' = Step("signUp", o, <<details>>,
                             <<[api |-> "signUp", args |-> <<details, ~IsAdmin>>]>>,
                             events, Pending)
             /\ UNCHANGED accessToken

signUp(details) ==
    IF NoUsernameOrEmail(details)
    THEN RejectLocally("signUp", <<details>>, "invalid_details")
    ELSE IF NoPassword(details)
    THEN RejectLocally("signUp", <<details>>, "invalid_details")
    ELSE LET events == IF SignsOutFirst
                       THEN <<SignoutEvent("signup", user)>> ELSE <<>>
             o == [op |-> "signUp", id |-> nextId, emitted |-> events,
                   held |-> user.oid,
                   isAdmin |-> IsAdmin]
         IN /\ CanCall
            /\ user' = IF SignsOutFirst THEN NullUser ELSE user
            /\ inflight' = inflight \cup {o}
            /\ nextId' = nextId + 1
            /\ last' = Step("signUp", o, <<details>>,
                            <<[api |-> "signUp", args |-> <<details, ~IsAdmin>>]>>,
                            events, Pending)
            /\ UNCHANGED accessToken

\* The .then callback: an admin gets { user: details.user } and keeps its
\* session; anyone else is signed into the new account.
signUpThen(o, details) ==
    /\ o.op = "signUp"
    /\ inflight' = inflight \ {o}
    /\ IF o.isAdmin
       THEN /\ last' = Step("signUpThen", o, details, <<>>, <<>>,
                            Resolved([user |-> details.user]))
            /\ UNCHANGED <<user, accessToken>>
       ELSE LET newUser == AceBaseUser(details.user, o.id) IN
            /\ accessToken' = details.accessToken
            /\ user' = newUser
            /\ last' = Step("signUpThen", o, details, <<>>,
                            <<SigninEvent("signup", newUser, details.accessToken)>>,
                            Resolved([user |-> newUser,
                                      accessToken |-> details.accessToken]))
    /\ UNCHANGED nextId

---------------------------------------------------------------------------
(* deleteAccount.                                                          *)

\* NotAdmin that lets a user name its own uid:
\* uid && uid !== this.user.uid && this.user.uid !== 'admin'
NotAdminUnlessSelf(uid) ==
    Truthy(uid) /\ uid # user.uid /\ user.uid # "admin"

\* uid && this.user.uid !== 'admin'
NotAdmin(uid) == Truthy(uid) /\ user.uid # "admin"

\* const deleteUid = uid || this.user.uid
DeleteUid(uid) == IF Truthy(uid) THEN uid ELSE user.uid

\* NotAllowed that never refuses.
NotAllowedNever(deleteUid) == FALSE

\* deleteUid === 'admin'
NotAllowed(deleteUid) == deleteUid = "admin"

deleteAccount(uid) ==
    IF NotSignedIn
    THEN RejectLocally("deleteAccount", <<uid>>, "not_signed_in")
    ELSE IF NotAdmin(uid)
    THEN RejectLocally("deleteAccount", <<uid>>, "not_admin")
    ELSE IF NotAllowed(DeleteUid(uid))
    THEN RejectLocally("deleteAccount", <<uid>>, "not_allowed")
    ELSE LET signOutCaller == user.uid # "admin"
             o == [op |-> "deleteAccount", id |-> nextId, emitted |-> <<>>,
                   held |-> user.oid,
                   signOut |-> signOutCaller]
         IN CallApi(o, <<uid>>,
                    [api |-> "deleteAccount",
                     args |-> <<DeleteUid(uid), signOutCaller>>])

\* deleteAccountThen without the if (signOut) test: the caller is always
\* signed out.
deleteAccountThenAlwaysSignsOut(o) ==
    /\ o.op = "deleteAccount"
    /\ inflight' = inflight \ {o}
    /\ accessToken' = NullToken
    /\ user' = NullUser
    /\ last' = Step("deleteAccountThen", o, Void, <<>>,
                    <<SignoutEvent("delete_account", user)>>,
                    Resolved(Void))
    /\ UNCHANGED nextId

\* The .then callback: if (signOut) clear the session and emit signout.
deleteAccountThen(o) ==
    /\ o.op = "deleteAccount"
    /\ inflight' = inflight \ {o}
    /\ IF o.signOut
       THEN /\ accessToken' = NullToken
            /\ user' = NullUser
            /\ last' = Step("deleteAccountThen", o, Void, <<>>,
                            <<SignoutEvent("delete_account", user)>>,
                            Resolved(Void))
       ELSE /\ last' = Step("deleteAccountThen", o, Void, <<>>, <<>>,
                            Resolved(Void))
            /\ UNCHANGED <<user, accessToken>>
    /\ UNCHANGED nextId

---------------------------------------------------------------------------
(* The Remote Auth API rejects.                                            *)

\* ApiFails with a .catch that clears the session before rejecting.
ApiFailsClearsSession(o, error) ==
    /\ inflight' = inflight \ {o}
    /\ user' = NullUser
    /\ accessToken' = NullToken
    /\ last' = Step("ApiFails", o, error, <<>>, <<>>, Rejected(error))
    /\ UNCHANGED nextId

\* ApiFails with a .catch that replaces the API's error by one of the
\* adapter's own.
ApiFailsWrapsError(o, error) ==
    /\ inflight' = inflight \ {o}
    /\ last' = Step("ApiFails", o, error, <<>>, <<>>,
                    Rejected(LocalError("api_failed")))
    /\ UNCHANGED <<user, accessToken, nextId>>

\* No method has a .catch: the callback is skipped and the method's promise
\* rejects with the API's error.  Nothing of the adapter changes.
ApiFails(o, error) ==
    /\ inflight' = inflight \ {o}
    /\ last' = Step("ApiFails", o, error, <<>>, <<>>, Rejected(error))
    /\ UNCHANGED <<user, accessToken, nextId>>

---------------------------------------------------------------------------
(* The adapter's behaviours.                                               *)

\* Strings the adapter only hands on to the API.
Names == {"a"}

Emails == {"a@x"}

Passwords == {"pw"}

ResetCodes == {"code"}

\* Tokens kept from an earlier session, for signInWithToken.
StoredTokens == {"t0"}

Next ==
    \/ \E n \in Names, p \in Passwords : signIn(n, p)
    \/ \E e \in Emails, p \in Passwords : signInWithEmail(e, p)
    \/ \E t \in StoredTokens : signInWithToken(t)
    \/ \E everywhere \in BOOLEAN : signOut(everywhere)
    \/ \E p \in Passwords, q \in Passwords : changePassword(p, q)
    \/ \E e \in Emails : forgotPassword(e)
    \/ \E c \in ResetCodes, p \in Passwords : resetPassword(c, p)
    \/ \E n \in {"n"} : changeUsername(n)
    \/ \E e \in {"n@x"} : changeEmail(e)
    \/ \E s \in {"s2"} : updateUserSettings(s)
    \/ \E details \in SignUpDetails : signUp(details)
    \/ \E uid \in DeleteUids : deleteAccount(uid)
    \/ \E o \in inflight, details \in SignInResponses : signInThen(o, details)
    \/ \E o \in inflight, details \in SignInResponses : signInWithEmailThen(o, details)
    \/ \E o \in inflight, details \in SignInResponses : signInWithTokenThen(o, details)
    \/ \E o \in inflight : signOutThen(o)
    \/ \E o \in inflight, result \in ChangePasswordResponses : changePasswordThen(o, result)
    \/ \E o \in inflight, result \in UpdateResponses : _updateUserDetailsThen(o, result)
    \/ \E o \in inflight :
          \E details \in (IF o.op = "signUp" /\ o.isAdmin
                          THEN SignUpOnlyResponses ELSE SignInResponses) :
             signUpThen(o, details)
    \/ \E o \in inflight : deleteAccountThen(o)
    \/ \E o \in inflight, error \in ApiErrors : ApiFails(o, error)

Spec == Init /\ [][Next]_vars

---------------------------------------------------------------------------
(* Properties.  A step is recognised by last' (the step record the action  *)
(* writes); the session before the step is the unprimed user, accessToken. *)

\* The names of the steps that are a sign-in method's .then callback.
SignInThens == {"signInThen", "signInWithEmailThen", "signInWithTokenThen"}

\* The session and the pending calls are what they were before the step.
NothingChanged ==
    /\ user' = user
    /\ accessToken' = accessToken
    /\ inflight' = inflight
    /\ nextId' = nextId

\* The step made no API call and emitted no event.
Silent(step) == step.calls = <<>> /\ step.events = <<>>

\* All the events an invocation has emitted up to and including the step.
EventsOf(step) ==
    IF step.promise.status \in {"pending", "api"} THEN step.events
    ELSE step.o.emitted \o step.events

\* The methods that need a signed-in user.
NeedUser ==
    {"signOut", "changePassword", "changeUsername", "changeEmail",
     "updateUserSettings", "deleteAccount"}

SignInMethods == {"signIn", "signInWithEmail", "signInWithToken"}

\* C1: with no user held, signOut, changePassword, changeUsername,
\* changeEmail, updateUserSettings and deleteAccount reject with
\* not_signed_in, call no API, emit no event and leave user and token as
\* they were.
C1_NotSignedIn ==
    [][ (user = NullUser /\ last'.act \in NeedUser) =>
            /\ last'.promise = Rejected([code |-> "not_signed_in"])
            /\ Silent(last')
            /\ NothingChanged ]_vars

\* C1's case: deleteAccount was rejected with not_signed_in while the session
\* held no user but still a token.
C1_Witness ==
    /\ last.act = "deleteAccount"
    /\ last.promise = Rejected([code |-> "not_signed_in"])
    /\ user = NullUser
    /\ accessToken # NullToken

\* C2: when the API call of signIn, signInWithEmail or signInWithToken
\* succeeds, the session holds the returned token and a user built from the
\* returned profile, the invocation has emitted exactly one event, a signin
\* with source signin, email_signin or token_signin carrying that user and
\* token, and the call resolves with that user and token.
C2_SignInSucceeds ==
    \A m \in SignInMethods :
        last.act = m \o "Then" =>
            /\ last.o.op = m
            /\ accessToken = last.input.accessToken
            /\ user = AceBaseUser(last.input.user, last.o.id)
            /\ EventsOf(last) =
                  << [name |-> "signin",
                      source |-> CASE m = "signIn" -> "signin"
                                   [] m = "signInWithEmail" -> "email_signin"
                                   [] m = "signInWithToken" -> "token_signin",
                      user |-> user, accessToken |-> accessToken] >>
            /\ last.promise = Resolved([user |-> user, accessToken |-> accessToken])

\* C2's case: a signInWithToken succeeded in a session that already held a
\* token, and the session now holds a different one.
C2_Witness ==
    /\ last.act = "signInWithTokenThen"
    /\ last.o.id > 1
    /\ user.uid = "u1"
    /\ accessToken = "t2"

\* C3 as stated: user and token are both present or both absent.
C3_BothOrNeither ==
    (user = NullUser) <=> (accessToken = NullToken)

\* C3, amended: whenever the session holds a user it holds a token.  (A token
\* is held without a user once a sign-in method, or signUp by a signed-in
\* non-admin, has cleared the user.)
C3_UserHasToken ==
    user # NullUser => accessToken # NullToken

\* C3's case: a user and a token are held after an operation ended a session
\* and a later one began another.
C3_Witness ==
    /\ user # NullUser
    /\ accessToken # NullToken
    /\ user.oid > 1
    /\ last.promise.status = "resolved"

\* C4 as stated: user and token change only in a step that resolves the
\* method's promise, that is after its API call has succeeded.
C4_OnlyAfterSuccess ==
    [][ (user' # user \/ accessToken' # accessToken) =>
            last'.promise.status = "resolved" ]_vars

\* C4, amended: the token changes only after a successful API call, and a
\* failing API call or a local rejection changes neither user nor token; the
\* user changes before the API call has succeeded only by being cleared at
\* the invocation of a sign-in method or of signUp by a signed-in non-admin,
\* and a later failure does not restore it.
C4_FailureChangesNothing ==
    [][ /\ last'.promise.status = "rejected" =>
              user' = user /\ accessToken' = accessToken
        /\ accessToken' # accessToken => last'.promise.status = "resolved"
        /\ (user' # user /\ last'.promise.status # "resolved") =>
              /\ user' = NullUser
              /\ \/ last'.act \in SignInMethods
                 \/ last'.act = "signUp" /\ user.uid # "admin" ]_vars

\* C4's case: a signIn invoked while a user was held has failed; the user is
\* gone and the token of the earlier session is still held.
C4_Witness ==
    /\ last.act = "ApiFails"
    /\ last.o.op = "signIn"
    /\ last.o.held # 0
    /\ user = NullUser
    /\ accessToken # NullToken

\* C5: when a signUp with valid details, invoked while a non-admin user is
\* signed in, succeeds, the events of that invocation are exactly a signout
\* with source signup carrying the user held at the invocation, then a signin
\* with source signup carrying the new user and token.
C5_SignUpEvents ==
    /\ (last.act = "signUp" /\ last.promise = Pending /\ last.o.held # 0
            /\ ~last.o.isAdmin) =>
          /\ Len(last.events) = 1
          /\ last.events[1].name = "signout"
          /\ last.events[1].source = "signup"
          /\ last.events[1].user.oid = last.o.held
          /\ last.o.emitted = last.events
    /\ (last.act = "signUpThen" /\ last.o.held # 0 /\ ~last.o.isAdmin) =>
          /\ Len(EventsOf(last)) = 2
          /\ EventsOf(last)[1].name = "signout"
          /\ EventsOf(last)[1].source = "signup"
          /\ EventsOf(last)[1].user.oid = last.o.held
          /\ EventsOf(last)[1].user.uid # "admin"
          /\ EventsOf(last)[2] =
                [name |-> "signin", source |-> "signup", user |-> user,
                 accessToken |-> accessToken]
          /\ user.oid = last.o.id
          /\ accessToken = last.input.accessToken

\* C5's case: such a signUp has succeeded, its signout emitted at the
\* invocation and its signin in the callback.
C5_Witness ==
    /\ last.act = "signUpThen"
    /\ last.o.held # 0
    /\ ~last.o.isAdmin
    /\ Len(last.events) = 1
    /\ Len(last.o.emitted) = 1

\* C6: signUp with details that have neither username nor email, or no
\* password, rejects with invalid_details, calls no API, emits no event (no
\* signout of a signed-in non-admin) and leaves user and token as they were.
C6_InvalidDetails ==
    [][ (/\ last'.act = "signUp"
         /\ LET d == last'.input[1] IN
               \/ d.username \in {Undefined, ""} /\ d.email \in {Undefined, ""}
               \/ d.password \in {Undefined, ""}) =>
            /\ last'.promise = Rejected([code |-> "invalid_details"])
            /\ Silent(last')
            /\ NothingChanged ]_vars

\* C6's case: a signed-in non-admin's signUp without a password was rejected
\* with invalid_details, and the user is still signed in.
C6_Witness ==
    /\ last.act = "signUp"
    /\ last.input[1].password = Undefined
    /\ last.promise = Rejected([code |-> "invalid_details"])
    /\ user # NullUser
    /\ user.uid = "u1"

\* C7: deleteAccount(uid) with a uid given, invoked while the signed-in user
\* is not admin, rejects with not_admin whatever the uid (the caller's own,
\* admin, another), calls no API, emits no event and changes nothing.
C7_NotAdmin ==
    [][ (/\ last'.act = "deleteAccount"
         /\ last'.input[1] \notin {Undefined, ""}
         /\ user # NullUser
         /\ user.uid # "admin") =>
            /\ last'.promise = Rejected([code |-> "not_admin"])
            /\ Silent(last')
            /\ NothingChanged ]_vars

\* C7's case: a signed-in non-admin named its own uid and was rejected with
\* not_admin.
C7_Witness ==
    /\ last.act = "deleteAccount"
    /\ user # NullUser
    /\ last.input[1] = user.uid
    /\ last.promise = Rejected([code |-> "not_admin"])

\* C8: no step calls the API's deleteAccount with target uid admin, and
\* deleteAccount() or deleteAccount('admin') invoked while signed in as admin
\* rejects with not_allowed, calls no API, emits no event and changes nothing.
C8_AdminNeverDeleted ==
    [][ /\ \A i \in DOMAIN last'.calls :
              last'.calls[i].api = "deleteAccount" =>
                  last'.calls[i].args[1] # "admin"
        /\ (/\ last'.act = "deleteAccount"
            /\ user # NullUser
            /\ user.uid = "admin"
            /\ last'.input[1] \in {Undefined, "", "admin"}) =>
               /\ last'.promise = Rejected([code |-> "not_allowed"])
               /\ Silent(last')
               /\ NothingChanged ]_vars

\* C8's case: the admin's deleteAccount() was rejected with not_allowed and
\* the admin is still signed in.
C8_Witness ==
    /\ last.act = "deleteAccount"
    /\ last.input[1] = Undefined
    /\ last.promise = Rejected([code |-> "not_allowed"])
    /\ user # NullUser
    /\ user.uid = "admin"
    /\ accessToken # NullToken

\* C9: the callback of a successful changePassword leaves the session's user
\* the object it was, sets the token to the returned one, emits exactly one
\* event for the invocation, a signin with source password_change carrying
\* that user and token, and resolves with the new token.
C9_ChangePassword ==
    [][ last'.act = "changePasswordThen" =>
            /\ user' = user
            /\ accessToken' = last'.input.accessToken
            /\ EventsOf(last') =
                  << [name |-> "signin", source |-> "password_change",
                      user |-> user', accessToken |-> accessToken'] >>
            /\ last'.promise = Resolved([accessToken |-> last'.input.accessToken]) ]_vars

\* C9's case: a changePassword succeeded with the user it was invoked for
\* still signed in, and replaced the token by a different one.
C9_Witness ==
    /\ last.act = "changePasswordThen"
    /\ user # NullUser
    /\ user.oid = last.o.held
    /\ accessToken = "t2"
    /\ last.input.accessToken = "t2"
    /\ last.events[1].user = user

\* C10: a successful changeUsername, changeEmail or updateUserSettings
\* overwrites in the session's user exactly the fields the API returned,
\* leaves its other fields, its identity and the token as they were, and
\* emits no event.
C10_DetailsMerged ==
    [][ (/\ last'.act = "_updateUserDetailsThen"
         /\ last'.promise.status = "resolved"
         /\ user # NullUser) =>
            LET returned == last'.input.user IN
            /\ DOMAIN user' = DOMAIN user \cup DOMAIN returned
            /\ \A k \in DOMAIN returned : user'[k] = returned[k]
            /\ \A k \in DOMAIN user \ DOMAIN returned : user'[k] = user[k]
            /\ user'.oid = user.oid
            /\ accessToken' = accessToken
            /\ EventsOf(last') = <<>>
            /\ last'.promise = Resolved([user |-> user']) ]_vars

\* C10's case: a changeUsername succeeded, the API returned only a username,
\* and the user's email is still the one it signed in with.
C10_Witness ==
    /\ last.act = "_updateUserDetailsThen"
    /\ last.o.op = "changeUsername"
    /\ last.promise.status = "resolved"
    /\ DOMAIN last.input.user = {"username"}
    /\ user # NullUser
    /\ user.username = "n"
    /\ user.email = "a@x"
    /\ user.oid = last.o.held

\* C11: when the API sign-out of a signOut succeeds, the callback clears the
\* session's user and token and the invocation has emitted exactly one event,
\* a signout with source signout carrying the user it removed; when it
\* fails, the method rejects with the API's error, no event is emitted and
\* user and token stay as they were.
C11_SignOut ==
    [][ /\ last'.act = "signOutThen" =>
              /\ user' = NullUser
              /\ accessToken' = NullToken
              /\ EventsOf(last') =
                    << [name |-> "signout", source |-> "signout", user |-> user] >>
              /\ last'.promise = Resolved(Void)
        /\ (last'.act = "ApiFails" /\ last'.o.op = "signOut") =>
              /\ last'.promise = Rejected(last'.input)
              /\ EventsOf(last') = <<>>
              /\ user' = user
              /\ accessToken' = accessToken ]_vars

\* C11's case: a signOut invoked for the signed-in user succeeded; the event
\* carries that user and the session is empty.
C11_Witness ==
    /\ last.act = "signOutThen"
    /\ last.o.held # 0
    /\ last.events[1].user.oid = last.o.held
    /\ user = NullUser
    /\ accessToken = NullToken

C13_DeleteAccount ==
    [][ /\ (last'.act = "deleteAccount" /\ last'.promise.status # "rejected") =>
               /\ Len(last'.calls) = 1
               /\ last'.calls[1].api = "deleteAccount"
               /\ last'.calls[1].args[2] = (user.uid # "admin")
               /\ last'.o.signOut = (user.uid # "admin")
               /\ last'.events = <<>>
        /\ (last'.act = "deleteAccountThen" /\ last'.o.signOut) =>
               /\ user' = NullUser
               /\ accessToken' = NullToken
               /\ Len(EventsOf(last')) = 1
               /\ EventsOf(last')[1].name = "signout"
               /\ EventsOf(last')[1].source = "delete_account"
        /\ (last'.act = "deleteAccountThen" /\ ~last'.o.signOut) =>
               /\ user' = user
               /\ accessToken' = accessToken
               /\ EventsOf(last') = <<>>
        /\ (last'.act = "ApiFails" /\ last'.o.op = "deleteAccount") =>
               /\ user' = user
               /\ accessToken' = accessToken
               /\ EventsOf(last') = <<>> ]_vars

\* C13's case: a non-admin user deleted its own account and was signed out
\* with the event carrying the user it was.
C13_Witness ==
    /\ last.act = "deleteAccountThen"
    /\ last.o.signOut
    /\ last.events[1].source = "delete_account"
    /\ last.events[1].user # NullUser
    /\ last.events[1].user.uid = "u1"
    /\ user = NullUser
    /\ accessToken = NullToken

\* C14: when two sign-in calls were in flight together and both succeed,
\* the session after the second resolution is the user and token of the
\* response that resolved second, whichever of the two was invoked first;
\* and while the other call is still in flight the session is the user and
\* token of the one response that resolved.
C14_LastResolvedWins ==
    [][ /\ (/\ last.act \in SignInThens
            /\ last'.act \in SignInThens) =>
               /\ last.o.id # last'.o.id
               /\ user' = AceBaseUser(last'.input.user, last'.o.id)
               /\ accessToken' = last'.input.accessToken
               /\ user'.oid # last.o.id
        /\ (/\ last'.act \in SignInThens
            /\ \E p \in inflight' : p.op \in SignInMethods) =>
               /\ user' = AceBaseUser(last'.input.user, last'.o.id)
               /\ accessToken' = last'.input.accessToken ]_vars

\* C14's case: the sign-in invoked first resolved last, after the session
\* had been given the user of call 2 (an operation invoked in between saw
\* that user); the session is call 1's user with call 1's token.
C14_Witness ==
    /\ last.act \in SignInThens
    /\ last.o.id = 1
    /\ \E p \in inflight : p.held = 2
    /\ user.oid = 1
    /\ accessToken = last.input.accessToken

\* C15: a method invocation that is rejected locally calls the API not at
\* all and any other invocation calls it exactly once; no callback and no
\* failure calls the API again; when the API call fails the method's promise
\* rejects with the very error of the API, no event is emitted and the call
\* is no longer pending.
C15_OneCallNoWrap ==
    last.act # "constructor" =>
        /\ Len(last.calls) <= 1
        /\ last.promise.status = "rejected" => last.calls = <<>>
        /\ last.promise.status \in {"pending", "api"} =>
              /\ Len(last.calls) = 1
              /\ last.act = last.o.op
        /\ last.promise.status = "resolved" => last.calls = <<>>
        /\ last.act = "ApiFails" =>
              /\ last.input \in ApiErrors
              /\ last.promise = Rejected(last.input)
              /\ last.events = <<>>
              /\ last.o \notin inflight
              /\ nextId > last.o.id

\* C15's case: the API call of a signUp failed; the promise is rejected with
\* the API's second error, and the one event the invocation emitted came
\* before the call.
C15_Witness ==
    /\ last.act = "ApiFails"
    /\ last.o.op = "signUp"
    /\ last.o.emitted # <<>>
    /\ last.promise.status = "rejected"
    /\ last.promise.error.code = "api_error_2"

\* C16: invoking signIn, signInWithEmail or signInWithToken clears the
\* session's user at once, keeps the token and emits no event; the failure
\* of a sign-in's API call changes neither user nor token, so a failure that
\* follows its own invocation leaves the session with no user and with the
\* token it held before the call.
C16_ClearedAtInvocation ==
    [][ /\ last'.act \in SignInMethods =>
               /\ user' = NullUser
               /\ accessToken' = accessToken
               /\ last'.events = <<>>
               /\ last'.promise = Pending
        /\ (last'.act = "ApiFails" /\ last'.o.op \in SignInMethods) =>
               /\ user' = user
               /\ accessToken' = accessToken
               /\ EventsOf(last') = <<>>
        /\ (/\ last.act \in SignInMethods
            /\ last'.act = "ApiFails"
            /\ last'.o = last.o) =>
               /\ user' = NullUser
               /\ accessToken' = accessToken ]_vars

\* C16's case: signInWithToken was invoked while a user was signed in and
\* its API call failed; the session has no user but still the old token.
C16_Witness ==
    /\ last.act = "ApiFails"
    /\ last.o.op = "signInWithToken"
    /\ last.o.held # 0
    /\ inflight = {}
    /\ user = NullUser
    /\ accessToken # NullToken

\* C17: the signout event a signOut or deleteAccount callback emits carries
\* a user, the one the session held when that method was invoked, and the
\* callback clears no user other than that one.  The callbacks read
\* this.user when they run, not when the method was invoked, so this fails.
C17_SignoutCarriesHeldUser ==
    [][ last'.act \in {"signOutThen", "deleteAccountThen"} =>
           /\ \A i \in DOMAIN last'.events :
                 /\ last'.events[i].user # NullUser
                 /\ last'.events[i].user.oid = last'.o.held
           /\ (user # NullUser /\ user.oid # last'.o.held) => user' = user ]_vars

\* C18: every signin event a step emits carries a user and a token, and the
\* session after the step holds that user and that token.  changePassword's
\* callback stores the new token and emits this.user as it is when the
\* callback runs, so this fails once the user was cleared meanwhile.
C18_SigninCarriesSession ==
    \A i \in DOMAIN (IF last.act = "constructor" THEN <<>> ELSE last.events) :
        last.events[i].name = "signin" =>
            /\ last.events[i].user # NullUser
            /\ last.events[i].accessToken # NullToken
            /\ user = last.events[i].user
            /\ accessToken = last.events[i].accessToken

\* C19: a listener that knows the session only from the events agrees with
\* the adapter: whenever no operation is in flight, the session holds a user
\* exactly if the last event was a signin, and then that event carried the
\* session's user; and every step that takes the session from a user to no
\* user emits a signout.  A sign-in method clears the user at invocation
\* without any event, so this fails.
C19_ListenerAgrees ==
    [][ /\ inflight' = {} =>
              /\ (user' # NullUser) <=> (last'.heard.name = "signin")
              /\ user' # NullUser => last'.heard.oid = user'.oid
        /\ (user # NullUser /\ user' = NullUser) =>
              \E i \in DOMAIN last'.events : last'.events[i].name = "signout" ]_vars

=============================================================================
